---- MODULE Spec2Model ----
(***************************************************************************)
(* The azurerm_data_factory_dataset_postgresql resource:                   *)
(* internal/services/datafactory/data_factory_dataset_postgresql_resource.go *)
(*                                                                         *)
(* One resource instance, the Data Factory dataset service behind the      *)
(* client, and the host runtime that calls the Create/Update, Read and     *)
(* Delete handlers one at a time.                                          *)
(*                                                                         *)
(* Conventions.                                                            *)
(*   - An optional value (an unset field of the ResourceData, a nil        *)
(*     pointer of the SDK payload) is a set with at most one element:      *)
(*     {} is unset/nil, {v} is set to v.                                   *)
(*   - A map is a set of <<key, value>> pairs; a nil Go map and an empty   *)
(*     one are both {}.                                                    *)
(*   - A resource identifier is the sequence of its path segments; the     *)
(*     empty string is << >>.                                              *)
(***************************************************************************)
EXTENDS Integers, Sequences, FiniteSets, TLC

VARIABLES
    subscriptionId,   \* the subscription the DatasetClient is bound to
    upstream,         \* the service: dataset key -> {} or {entity}
    cfg,              \* the configuration the runtime applies
    d,                \* the persisted ResourceData (id and fields)
    last              \* what the last handler invocation did

vars == <<subscriptionId, upstream, cfg, d, last>>

----------------------------------------------------------------------------
(* Bounds of the model *)

MaxAnnotations == 1
MaxColumns == 1
MaxSupplied == 1

Subscriptions == {"subA", "subB"}
ResourceGroups == {"rg1"}
Factories == {"df1"}
Names == {"ds1"}

\* A JSON value that is not a string (an object), as the service may hold in
\* an untyped position of a dataset written by someone else.
ObjectValue == "<object>"

----------------------------------------------------------------------------
(* Identifiers: internal/services/datafactory/parse *)

NewDataFactoryID(sub, rg, factory) ==
    [SubscriptionId |-> sub, ResourceGroup |-> rg, FactoryName |-> factory]

NewDataSetID(sub, rg, factory, name) ==
    [SubscriptionId |-> sub, ResourceGroup |-> rg, FactoryName |-> factory,
     Name |-> name]

\* DataFactoryId.ID(): the formatted identifier
DataFactoryIdString(id) ==
    <<"subscriptions", id.SubscriptionId, "resourceGroups", id.ResourceGroup,
      "providers", "Microsoft.DataFactory", "factories", id.FactoryName>>

\* DataSetId.ID(): the formatted identifier
DataSetIdString(id) ==
    <<"subscriptions", id.SubscriptionId, "resourceGroups", id.ResourceGroup,
      "providers", "Microsoft.DataFactory", "factories", id.FactoryName,
      "datasets", id.Name>>

NoFactoryId == NewDataFactoryID("", "", "")
NoDataSetId == NewDataSetID("", "", "", "")

\* parse.DataFactoryID: [err, id]
ParseDataFactoryID(s) ==
    IF /\ Len(s) = 8
       /\ s[1] = "subscriptions" /\ s[3] = "resourceGroups"
       /\ s[5] = "providers" /\ s[6] = "Microsoft.DataFactory"
       /\ s[7] = "factories"
       /\ s[2] # "" /\ s[4] # "" /\ s[8] # ""
    THEN [err |-> FALSE, id |-> NewDataFactoryID(s[2], s[4], s[8])]
    ELSE [err |-> TRUE, id |-> NoFactoryId]

\* parse.DataSetID: [err, id]
ParseDataSetID(s) ==
    IF /\ Len(s) = 10
       /\ s[1] = "subscriptions" /\ s[3] = "resourceGroups"
       /\ s[5] = "providers" /\ s[6] = "Microsoft.DataFactory"
       /\ s[7] = "factories" /\ s[9] = "datasets"
       /\ s[2] # "" /\ s[4] # "" /\ s[8] # "" /\ s[10] # ""
    THEN [err |-> FALSE, id |-> NewDataSetID(s[2], s[4], s[8], s[10])]
    ELSE [err |-> TRUE, id |-> NoDataSetId]

\* An identifier string that parses as neither
MalformedId == <<"subscriptions", "subA", "factories", "df1">>

----------------------------------------------------------------------------
(* pluginsdk.ResourceData *)

The(s) == CHOOSE v \in s : TRUE

StringFields == {"name", "data_factory_name", "resource_group_name",
                 "linked_service_name", "table_name", "description", "folder"}
MapFields == {"parameters", "additional_properties"}
ListFields == {"annotations", "schema_column"}
PayloadFields == {"additional_properties", "description", "parameters",
                  "annotations", "linked_service_name", "table_name", "folder",
                  "schema_column"}
AllFields == StringFields \cup MapFields \cup ListFields \cup {"data_factory_id"}

\* A ResourceData with no ID and no field set
EmptyResourceData ==
    [id |-> << >>, isNew |-> FALSE, tainted |-> FALSE,
     name |-> {}, data_factory_name |-> {}, data_factory_id |-> {},
     resource_group_name |-> {}, linked_service_name |-> {}, table_name |-> {},
     parameters |-> {}, description |-> {}, annotations |-> {}, folder |-> {},
     additional_properties |-> {}, schema_column |-> {}]

\* d.Get(k).(string): the zero value when the field is unset
GetString(rd, k) == IF rd[k] = {} THEN "" ELSE The(rd[k])

\* d.Get(k) of a field holding an identifier string
GetIdString(rd, k) == IF rd[k] = {} THEN << >> ELSE The(rd[k])

\* d.GetOk(k): ok only when the field is set to a non-zero value
GetOkString(rd, k) == rd[k] # {} /\ The(rd[k]) # ""
GetOkMap(rd, k) == rd[k] # {} /\ The(rd[k]) # {}
GetOkList(rd, k) == rd[k] # {} /\ The(rd[k]) # << >>

\* d.Set(k, v) that succeeds
Set(rd, k, v) == [rd EXCEPT ![k] = {v}]

\* d.Set(k, v) of a map of TypeString fails on a value that is no string
SetMapFails(v) == \E p \in v : p[2] = ObjectValue

\* d.SetId(id)
SetId(rd, id) == [rd EXCEPT !.id = id]

\* d.IsNewResource()
IsNewResource(rd) == rd.isNew

\* ResourceData.State(): what the runtime persists when a handler returns.
\* Without an ID the resource does not exist and nothing is kept.
State(rd) == IF rd.id = << >> THEN EmptyResourceData
             ELSE [rd EXCEPT !.isNew = FALSE]

----------------------------------------------------------------------------
(* expand/flatten helpers of the package (data_factory.go) *)

\* expandDataFactoryParameters: map[string]interface{} ->
\* map[string]*ParameterSpecification
expandDataFactoryParameters(m) ==
    {<<p[1], [Type |-> "String", DefaultValue |-> p[2]]>> : p \in m}

\* flattenDataFactoryParameters: the default value of each parameter
flattenDataFactoryParameters(ps) ==
    {<<p[1], p[2].DefaultValue>> : p \in ps}

\* flattenDataFactoryAnnotations(*[]interface{}): empty list for nil
flattenDataFactoryAnnotations(a) == IF a = {} THEN << >> ELSE The(a)

OptString(s) == IF s = "" THEN {} ELSE {s}
StringOf(o) == IF o = {} THEN "" ELSE The(o)

\* expandDataFactoryDatasetStructure: each column as a DatasetDataElement,
\* its empty strings left out
expandDataFactoryDatasetStructure(cols) ==
    [i \in 1..Len(cols) |->
        [Name |-> OptString(cols[i].name), Type |-> OptString(cols[i].type),
         Description |-> OptString(cols[i].description)]]

\* flattenDataFactoryStructureColumns(interface{}): empty list for nil
flattenDataFactoryStructureColumns(st) ==
    IF st = {} THEN << >>
    ELSE LET cols == The(st) IN
         [i \in 1..Len(cols) |->
            [name |-> StringOf(cols[i].Name), type |-> StringOf(cols[i].Type),
             description |-> StringOf(cols[i].Description)]]

----------------------------------------------------------------------------
(* The DatasetClient and the service behind it *)

Keys == ResourceGroups \X Factories \X Names
KeyOf(id) == <<id.ResourceGroup, id.FactoryName, id.Name>>

\* client.Get: the client addresses the service in its own subscription
ClientGet(up, id, outcome) ==
    IF outcome = "err" THEN [err |-> TRUE, status |-> 500, entity |-> {}]
    ELSE IF KeyOf(id) \notin Keys \/ up[KeyOf(id)] = {}
         THEN [err |-> TRUE, status |-> 404, entity |-> {}]
         ELSE [err |-> FALSE, status |-> 200, entity |-> up[KeyOf(id)]]

\* client.CreateOrUpdate: the service stores the payload as sent
ClientCreateOrUpdate(up, id, dataset, outcome) ==
    IF outcome = "err" \/ KeyOf(id) \notin Keys
    THEN [err |-> TRUE, up |-> up]
    ELSE [err |-> FALSE, up |-> [up EXCEPT ![KeyOf(id)] = {dataset}]]

\* client.Delete
ClientDelete(up, id, outcome) ==
    IF outcome = "err" THEN [err |-> TRUE, status |-> 500, up |-> up]
    ELSE IF KeyOf(id) \notin Keys \/ up[KeyOf(id)] = {}
         THEN [err |-> TRUE, status |-> 404, up |-> up]
         ELSE [err |-> FALSE, status |-> 200,
               up |-> [up EXCEPT ![KeyOf(id)] = {}]]

\* utils.ResponseWasNotFound
ResponseWasNotFound(resp) == resp.status = 404

\* existing.ID != nil && *existing.ID != ""
HasID(resp) == resp.entity # {}

\* BasicDataset.AsRelationalTableDataset
AsRelationalTableDataset(e) == e.kind = "RelationalTable"

----------------------------------------------------------------------------
(* The handlers.  Each returns
     [rd    : the ResourceData as the handler leaves it,
      up    : the service as the handler leaves it,
      err   : "" for a nil error, else which error is returned,
      trace : the external calls (with the status answered), the ID
              writes and the call of Read, in order,
      fails : the steps other than external calls that failed on the way
              (an identifier that does not parse, an entity of another
              variant, a field that could not be written)]
   `env` gives the outcome of what the handler does not control: a transport
   or server failure of each call ("err"), and whether the entity is removed
   by someone else between CreateOrUpdate and the Read that follows. *)

\* The events of a trace
GetEvent(resp) ==
    IF resp.status = 200 THEN "Get.200"
    ELSE IF resp.status = 404 THEN "Get.404" ELSE "Get.500"
ProbeEvent(resp) ==
    IF resp.status = 200 THEN "probe.200"
    ELSE IF resp.status = 404 THEN "probe.404" ELSE "probe.500"
DeleteEvent(resp) ==
    IF resp.status = 200 THEN "Delete.200"
    ELSE IF resp.status = 404 THEN "Delete.404" ELSE "Delete.500"

Result(rd, up, err, trace, fails) ==
    [rd |-> rd, up |-> up, err |-> err, trace |-> trace, fails |-> fails]

\* Mutant: no failure of Get counts as the entity being gone
ReadGone_Never(resp) == FALSE

\* Mutant: every failure of Get counts as the entity being gone
ReadGone_Always(resp) == TRUE

\* Read, line 268: which failure of Get means the entity is gone
ReadGone(resp) == ResponseWasNotFound(resp)

\* Mutant: the ID is kept when the entity is gone
ReadNotFound_KeepsId(rd) == rd

\* Read, lines 269-270: the entity is gone
ReadNotFound(rd) == SetId(rd, << >>)

\* Read, lines 276-280: the fields derived from the identifier
ReadIdentity(rd, id) ==
    LET dataFactoryId ==
            NewDataFactoryID(id.SubscriptionId, id.ResourceGroup, id.FactoryName)
        r1 == Set(rd, "name", id.Name)
        r2 == Set(r1, "resource_group_name", id.ResourceGroup)
        r3 == Set(r2, "data_factory_name", id.FactoryName)
    IN  Set(r3, "data_factory_id", DataFactoryIdString(dataFactoryId))

\* Read, line 287: d.Set("additional_properties", ...), its error dropped
ReadAdditionalProperties(rd, t) ==
    IF SetMapFails(t.AdditionalProperties) THEN rd
    ELSE Set(rd, "additional_properties", t.AdditionalProperties)

\* Read, lines 289-291
ReadDescription(rd, t) ==
    IF t.Description # {} THEN Set(rd, "description", The(t.Description)) ELSE rd

\* Read, lines 303-307
ReadLinkedService(rd, t) ==
    IF t.LinkedServiceName # {} /\ The(t.LinkedServiceName).ReferenceName # {}
    THEN Set(rd, "linked_service_name", The(The(t.LinkedServiceName).ReferenceName))
    ELSE rd

\* Read, lines 309-316: a table name that is no string is skipped
ReadTableName(rd, t) ==
    IF t.TypeProperties # {} /\ The(t.TypeProperties).TableName # ObjectValue
    THEN Set(rd, "table_name", The(t.TypeProperties).TableName)
    ELSE rd

\* Read, lines 318-322
ReadFolder(rd, t) ==
    IF t.Folder # {} /\ The(t.Folder).Name # {}
    THEN Set(rd, "folder", The(The(t.Folder).Name))
    ELSE rd

\* Read, lines 287-329: the payload of a relational table dataset
ReadPayload(rd, up, t, trace) ==
    LET apFails == IF SetMapFails(t.AdditionalProperties)
                   THEN {"Set.additional_properties"} ELSE {}
        r1 == ReadAdditionalProperties(rd, t)
        r2 == ReadDescription(r1, t)
        parameters == flattenDataFactoryParameters(t.Parameters)
    IN  IF SetMapFails(parameters)
        THEN Result(r2, up, "setting parameters", trace,
                    apFails \cup {"Set.parameters"})
        ELSE
        LET r3 == Set(r2, "parameters", parameters)
            r4 == Set(r3, "annotations", flattenDataFactoryAnnotations(t.Annotations))
            r5 == ReadLinkedService(r4, t)
            r6 == ReadTableName(r5, t)
            r7 == ReadFolder(r6, t)
            r8 == Set(r7, "schema_column",
                      flattenDataFactoryStructureColumns(t.Structure))
        IN  Result(r8, up, "", trace, apFails)

\* Mutant: the ok of the type assertion is not looked at
Classified_Always(e) == TRUE

\* Read, lines 282-283: the entity is of the expected variant
Classified(e) == AsRelationalTableDataset(e)

\* resourceDataFactoryDatasetPostgreSQLRead
Read(rd, up, env) ==
    LET p == ParseDataSetID(rd.id) IN
    IF p.err THEN Result(rd, up, "parse", << >>, {"parse"})
    ELSE
    LET resp == ClientGet(up, p.id, env.get) IN
    IF resp.err
    THEN IF ReadGone(resp)
         THEN Result(ReadNotFound(rd), up, "", <<GetEvent(resp)>>, {})
         ELSE Result(rd, up, "retrieving", <<GetEvent(resp)>>, {})
    ELSE
    LET r1 == ReadIdentity(rd, p.id)
        e == The(resp.entity)
    IN  IF ~Classified(e)
        THEN Result(r1, up, "classifying", <<GetEvent(resp)>>, {"classify"})
        ELSE ReadPayload(r1, up, e, <<GetEvent(resp)>>)

\* Mutant: a not-found answer is an error like any other
DeleteIgnores_Nothing(resp) == FALSE

\* Delete, line 344: a not-found answer is no error
DeleteIgnores(resp) == ResponseWasNotFound(resp)

\* resourceDataFactoryDatasetPostgreSQLDelete
Delete(rd, up, env) ==
    LET p == ParseDataSetID(rd.id) IN
    IF p.err THEN Result(rd, up, "parse", << >>, {"parse"})
    ELSE
    LET resp == ClientDelete(up, p.id, env.del) IN
    IF resp.err
    THEN IF ~DeleteIgnores(resp)
         THEN Result(rd, resp.up, "deleting", <<DeleteEvent(resp)>>, {})
         ELSE Result(rd, resp.up, "", <<DeleteEvent(resp)>>, {})
    ELSE Result(rd, resp.up, "", <<DeleteEvent(resp)>>, {})

\* CreateUpdate, lines 169-180: the factory the dataset belongs to, from
\* data_factory_name or from data_factory_id, the latter winning.
\* [err, id]: id is {} for the nil pointer.
ResolveDataFactoryId(rd, sub) ==
    LET byName ==
            IF GetString(rd, "data_factory_name") # ""
            THEN {NewDataFactoryID(sub, GetString(rd, "resource_group_name"),
                                   GetString(rd, "data_factory_name"))}
            ELSE {}
        v == GetIdString(rd, "data_factory_id")
    IN  IF v # << >>
        THEN LET p == ParseDataFactoryID(v) IN
             IF p.err THEN [err |-> TRUE, id |-> {}]
             ELSE [err |-> FALSE, id |-> {p.id}]
        ELSE [err |-> FALSE, id |-> byName]

\* CreateUpdate, line 182
DataSetIdOf(sub, dataFactoryId, name) ==
    NewDataSetID(sub, dataFactoryId.ResourceGroup, dataFactoryId.FactoryName, name)

\* Mutant: the probe's answer is not looked at
AlreadyExists_Ignored(existing) == FALSE

\* CreateUpdate, lines 192-194: the probe found an entity
AlreadyExists(existing) == HasID(existing)

\* CreateUpdate, lines 197-243: the payload.  Its properties are a
\* datafactory.RelationalTableDataset (line 209), which is the variant the
\* service stores; datasetType (line 239) is the type of the enclosing
\* resource and decides nothing here.
BuildDataset(rd) ==
    [kind |-> "RelationalTable",
     TypeProperties |-> {[TableName |-> GetString(rd, "table_name")]},
     LinkedServiceName |->
        {[ReferenceName |-> {GetString(rd, "linked_service_name")},
          Type |-> {"LinkedServiceReference"}]},
     Description |-> {GetString(rd, "description")},
     Folder |-> IF GetOkString(rd, "folder")
                THEN {[Name |-> {The(rd.folder)}]} ELSE {},
     Parameters |-> IF GetOkMap(rd, "parameters")
                    THEN expandDataFactoryParameters(The(rd.parameters)) ELSE {},
     Annotations |-> IF GetOkList(rd, "annotations")
                     THEN {The(rd.annotations)} ELSE {},
     AdditionalProperties |-> IF GetOkMap(rd, "additional_properties")
                              THEN The(rd.additional_properties) ELSE {},
     Structure |-> IF GetOkList(rd, "schema_column")
                   THEN {expandDataFactoryDatasetStructure(The(rd.schema_column))}
                   ELSE {}]

\* Someone else deletes the entity after CreateOrUpdate returned
RemovedByOthers(up, id, gone) ==
    IF gone /\ KeyOf(id) \in Keys THEN [up EXCEPT ![KeyOf(id)] = {}] ELSE up

\* CreateUpdate, line 249
AdoptId(rd, id) == SetId(rd, DataSetIdString(id))

\* Mutant: the ID is adopted before CreateOrUpdate is called
Store_AdoptsFirst(rd, up, id, env, trace, fails) ==
    LET r1 == AdoptId(rd, id)
        cou == ClientCreateOrUpdate(up, id, BuildDataset(rd), env.cou)
    IN
    IF cou.err
    THEN Result(r1, up, "creating/updating",
                trace \o <<"SetId", "CreateOrUpdate.err">>, fails)
    ELSE
    LET rr == Read(r1, RemovedByOthers(cou.up, id, env.gone), env)
    IN  Result(rr.rd, rr.up, rr.err,
               trace \o <<"SetId", "CreateOrUpdate.ok", "Read">> \o rr.trace,
               fails \cup rr.fails)

\* CreateUpdate, lines 245-251: from CreateOrUpdate on
Store(rd, up, id, env, trace, fails) ==
    LET cou == ClientCreateOrUpdate(up, id, BuildDataset(rd), env.cou) IN
    IF cou.err
    THEN Result(rd, up, "creating/updating", Append(trace, "CreateOrUpdate.err"),
                fails)
    ELSE
    LET r1 == AdoptId(rd, id)
        rr == Read(r1, RemovedByOthers(cou.up, id, env.gone), env)
    IN  Result(rr.rd, rr.up, rr.err,
               trace \o <<"CreateOrUpdate.ok", "SetId", "Read">> \o rr.trace,
               fails \cup rr.fails)

\* resourceDataFactoryDatasetPostgreSQLCreateUpdate
CreateUpdate(rd, up, sub, env) ==
    LET r == ResolveDataFactoryId(rd, sub) IN
    IF r.err THEN Result(rd, up, "parse", << >>, {"parse"})
    ELSE IF r.id = {}
    THEN \* line 182 dereferences the nil pointer: the handler does not return
         Result(rd, up, "panic", << >>, {"nil dereference"})
    ELSE
    LET id == DataSetIdOf(sub, The(r.id), GetString(rd, "name")) IN
    IF IsNewResource(rd)
    THEN LET existing == ClientGet(up, id, env.probe) IN
         IF existing.err /\ ~ResponseWasNotFound(existing)
         THEN Result(rd, up, "checking for presence", <<ProbeEvent(existing)>>,
                     {})
         ELSE IF AlreadyExists(existing)
         THEN Result(rd, up, "already exists", <<ProbeEvent(existing)>>, {})
         ELSE Store(rd, up, id, env, <<ProbeEvent(existing)>>, {})
    ELSE Store(rd, up, id, env, << >>, {})

----------------------------------------------------------------------------
(* The schema, lines 39-158, and the configurations drawn from it *)

Opt(S) == {{}} \cup {{v} : v \in S}
SeqsUpTo(S, n) == UNION {[1..k -> S] : k \in 0..n}

FactoryIdStrings ==
    {DataFactoryIdString(NewDataFactoryID(s, g, f)) :
        s \in Subscriptions, g \in ResourceGroups, f \in Factories}

ColumnValues == {[name |-> "c", type |-> "String", description |-> "cd"]}

\* What a configuration may hold for each optional payload field.  The
\* string fields carry StringIsNotEmpty, so a supplied string is never empty;
\* a map or a list may be supplied empty.
Payload ==
    [linked_service_name : {{"ls"}},
     table_name : Opt({"t"}),
     description : Opt({"d"}),
     folder : Opt({"f"}),
     parameters : Opt({{}, {<<"p", "v">>}}),
     annotations : Opt(SeqsUpTo({"a"}, MaxAnnotations)),
     additional_properties : Opt({{<<"k", "v">>}}),
     schema_column : Opt(SeqsUpTo(ColumnValues, MaxColumns))]

OptionalPayloadFields == PayloadFields \ {"linked_service_name"}
Supplied(p) == {f \in OptionalPayloadFields : p[f] # {}}
BoundedPayload == {p \in Payload : Cardinality(Supplied(p)) <= MaxSupplied}
MinimalPayload == {p \in Payload : Supplied(p) = {}}

\* How a configuration may name the factory: by data_factory_name, by
\* data_factory_id (which may hold any string once it is computed from
\* another resource, so a malformed one is among the values), by both or by
\* neither.
Identity ==
    [name : {{n} : n \in Names},
     resource_group_name : {{g} : g \in ResourceGroups},
     data_factory_name : Opt(Factories),
     data_factory_id : Opt(FactoryIdStrings \cup {MalformedId})]

\* The identities with which Create/Update gets as far as the payload
Resolvable(i) ==
    /\ (i.data_factory_name # {}) # (i.data_factory_id # {})
    /\ i.data_factory_id # {MalformedId}

Merge(i, p) ==
    [f \in DOMAIN i \cup DOMAIN p |-> IF f \in DOMAIN i THEN i[f] ELSE p[f]]

\* The configurations: the payload matters only where the handler reads it
Config ==
    {Merge(i, p) : i \in {j \in Identity : Resolvable(j)}, p \in BoundedPayload}
    \cup
    {Merge(i, p) : i \in {j \in Identity : ~Resolvable(j)}, p \in MinimalPayload}

\* Mutant: AtLeastOneOf in place of ExactlyOneOf
ExactlyOneOf_AtLeastOne(c) == c.data_factory_name # {} \/ c.data_factory_id # {}

\* ExactlyOneOf, lines 55 and 64
ExactlyOneOf(c) == (c.data_factory_name # {}) # (c.data_factory_id # {})

\* Optional + Computed, lines 50-51 and 60-61: without a configured value the
\* field keeps the value the state holds
ComputedFields == {"data_factory_name", "data_factory_id"}

\* ForceNew, lines 43, 52, 62 and the resource group: a change of one of
\* these replaces the resource instead of updating it
ForceNewFields == {"name", "data_factory_name", "data_factory_id",
                   "resource_group_name"}

NeedsReplace(st, c) == \E f \in ForceNewFields : c[f] # {} /\ c[f] # st[f]

\* The ResourceData a Create starts from: the configuration, no ID
EntryCreate(c) ==
    [f \in DOMAIN EmptyResourceData |->
        IF f = "id" THEN << >>
        ELSE IF f = "isNew" THEN TRUE
        ELSE IF f = "tainted" THEN FALSE
        ELSE c[f]]

\* The ResourceData an Update starts from: the configuration over the state
EntryUpdate(st, c) ==
    [f \in DOMAIN EmptyResourceData |->
        IF f \in {"id", "isNew", "tainted"} THEN st[f]
        ELSE IF f \in ComputedFields /\ c[f] = {} THEN st[f]
        ELSE c[f]]

----------------------------------------------------------------------------
(* Datasets written by someone else *)

ForeignEntities ==
    { \* a dataset of another variant
      [kind |-> "AzureBlob",
       TypeProperties |-> {[TableName |-> "x"]},
       LinkedServiceName |-> {[ReferenceName |-> {"other"},
                               Type |-> {"LinkedServiceReference"}]},
       Description |-> {"blob"}, Folder |-> {[Name |-> {"g"}]},
       Parameters |-> {}, Annotations |-> {<<"b">>},
       AdditionalProperties |-> {<<"k", "w">>}, Structure |-> {}],
      \* a relational table with nothing optional set and an additional
      \* property that is no string
      [kind |-> "RelationalTable",
       TypeProperties |-> {}, LinkedServiceName |-> {}, Description |-> {},
       Folder |-> {}, Parameters |-> {}, Annotations |-> {},
       AdditionalProperties |-> {<<"k", ObjectValue>>}, Structure |-> {}],
      \* a relational table with a parameter and a table name that are no
      \* strings
      [kind |-> "RelationalTable",
       TypeProperties |-> {[TableName |-> ObjectValue]},
       LinkedServiceName |-> {[ReferenceName |-> {},
                               Type |-> {"LinkedServiceReference"}]},
       Description |-> {"x"}, Folder |-> {[Name |-> {}]},
       Parameters |-> {<<"p", [Type |-> "Object", DefaultValue |-> ObjectValue]>>},
       Annotations |-> {}, AdditionalProperties |-> {}, Structure |-> {}] }

----------------------------------------------------------------------------
(* The state machine *)

Outcomes == {"ok", "err"}
Env == [probe : Outcomes, cou : Outcomes, gone : BOOLEAN, get : Outcomes,
        del : Outcomes]
\* Only the outcomes of the calls a handler gets to make are varied
Quiet == [probe |-> "ok", cou |-> "ok", gone |-> FALSE, get |-> "ok", del |-> "ok"]
ReadEnv == {[Quiet EXCEPT !.get = o] : o \in Outcomes}
DeleteEnv == {[Quiet EXCEPT !.del = o] : o \in Outcomes}
CreateEnv ==
    {e \in Env :
        /\ e.del = "ok"
        /\ e.probe = "err" => e.cou = "ok"
        /\ e.cou = "err" => ~e.gone
        /\ (e.probe = "err" \/ e.cou = "err" \/ e.gone) => e.get = "ok"}

ImportIds ==
    {DataSetIdString(NewDataSetID(s, k[1], k[2], k[3])) :
        s \in Subscriptions, k \in Keys} \cup {MalformedId}

Invocation(op, entry, res) ==
    [op |-> op, entry |-> entry, err |-> res.err, trace |-> res.trace,
     fails |-> res.fails]

\* No handler has run since the service last changed
NoInvocation ==
    [op |-> "none", entry |-> EmptyResourceData, err |-> "", trace |-> << >>,
     fails |-> {}]

Init ==
    /\ subscriptionId \in Subscriptions
    /\ upstream = [k \in Keys |-> {}]
    /\ cfg \in Config
    /\ d = EmptyResourceData
    /\ last = NoInvocation

\* The runtime validates the configuration against the schema before it
\* plans anything; a configuration that fails is never applied.
Validate ==
    /\ ~ExactlyOneOf(cfg)
    /\ last' = Invocation("validate", EntryCreate(cfg),
                          Result(d, upstream, "ExactlyOneOf", << >>, {}))
    /\ UNCHANGED <<subscriptionId, upstream, cfg, d>>

\* Create: resourceDataFactoryDatasetPostgreSQLCreateUpdate on a new resource
Create ==
    /\ ExactlyOneOf(cfg)
    /\ d.id = << >>
    /\ \E env \in CreateEnv :
        LET entry == EntryCreate(cfg)
            res == CreateUpdate(entry, upstream, subscriptionId, env)
        IN  /\ upstream' = res.up
            /\ d' = [State(res.rd) EXCEPT
                        !.tainted = (res.err # "" /\ res.rd.id # << >>)]
            /\ last' = Invocation("create", entry, res)
    /\ UNCHANGED <<subscriptionId, cfg>>

\* Update: the same handler on an existing resource
Update ==
    /\ ExactlyOneOf(cfg)
    /\ d.id # << >>
    /\ ~d.tainted
    /\ ~NeedsReplace(d, cfg)
    /\ \E env \in CreateEnv :
        LET entry == EntryUpdate(d, cfg)
            res == CreateUpdate(entry, upstream, subscriptionId, env)
        IN  /\ upstream' = res.up
            /\ d' = State(res.rd)
            /\ last' = Invocation("update", entry, res)
    /\ UNCHANGED <<subscriptionId, cfg>>

\* Refresh: resourceDataFactoryDatasetPostgreSQLRead on the persisted state
Refresh ==
    /\ d.id # << >>
    /\ \E env \in ReadEnv :
        LET res == Read(d, upstream, env)
        IN  /\ upstream' = res.up
            /\ d' = State(res.rd)
            /\ last' = Invocation("read", d, res)
    /\ UNCHANGED <<subscriptionId, cfg>>

\* Destroy: resourceDataFactoryDatasetPostgreSQLDelete; the runtime drops the
\* state when the handler returns no error
Destroy ==
    /\ d.id # << >>
    /\ \E env \in DeleteEnv :
        LET res == Delete(d, upstream, env)
        IN  /\ upstream' = res.up
            /\ d' = IF res.err = "" THEN EmptyResourceData ELSE State(res.rd)
            /\ last' = Invocation("delete", d, res)
    /\ UNCHANGED <<subscriptionId, cfg>>

\* Import, lines 27-30: the identifier is validated, then the resource is read
Import ==
    /\ d.id = << >>
    /\ \E s \in ImportIds, env \in ReadEnv :
        LET entry == SetId(EmptyResourceData, s) IN
        IF ParseDataSetID(s).err
        THEN /\ last' = Invocation("import", entry,
                                   Result(d, upstream, "parse", << >>, {"parse"}))
             /\ UNCHANGED <<upstream, d>>
        ELSE LET res == Read(entry, upstream, env)
             IN  /\ upstream' = res.up
                 /\ d' = State(res.rd)
                 /\ last' = Invocation("read", entry, res)
    /\ UNCHANGED <<subscriptionId, cfg>>

\* Someone else deletes a dataset
OutOfBandDelete ==
    /\ \E k \in Keys :
        /\ upstream[k] # {}
        /\ upstream' = [upstream EXCEPT ![k] = {}]
    /\ last' = NoInvocation
    /\ UNCHANGED <<subscriptionId, cfg, d>>

\* Someone else writes a dataset
OutOfBandWrite ==
    /\ \E k \in Keys, e \in ForeignEntities :
        upstream' = [upstream EXCEPT ![k] = {e}]
    /\ last' = NoInvocation
    /\ UNCHANGED <<subscriptionId, cfg, d>>

Next ==
    \/ Validate
    \/ Create
    \/ Update
    \/ Refresh
    \/ Destroy
    \/ Import
    \/ OutOfBandDelete
    \/ OutOfBandWrite

Spec == Init /\ [][Next]_vars

----------------------------------------------------------------------------
(* Properties *)

Has(trace, ev) == \E i \in 1..Len(trace) : trace[i] = ev
Mutated(trace) == Has(trace, "CreateOrUpdate.ok") \/ Has(trace, "CreateOrUpdate.err")
IsCreateUpdate == last.op \in {"create", "update"}

\* C1: a Create whose probe finds an entity at the resolved identifier
\* returns the already-exists error, never calls CreateOrUpdate and does not
\* set the resource ID.
C1_ExistingIsNotOverwritten ==
    (last.op = "create" /\ Has(last.trace, "probe.200")) =>
        /\ last.err = "already exists"
        /\ ~Mutated(last.trace)
        /\ ~Has(last.trace, "SetId")
        /\ d.id = << >>

C1_Witness ==
    /\ last.op = "create"
    /\ Has(last.trace, "probe.200")
    /\ last.err = "already exists"
    /\ \E k \in Keys : upstream[k] # {}

\* The dataset the last Read or Delete addressed
ReadKey == KeyOf(ParseDataSetID(last.entry.id).id)

\* C2: a Read whose Get answers not-found (on its own or at the end of
\* Create/Update) returns no error and leaves the declared state cleared: no
\* ID and no field holding a value.
C2_ReadOfMissingClearsState ==
    Has(last.trace, "Get.404") =>
        /\ last.err = ""
        /\ d.id = << >>
        /\ \A f \in AllFields : d[f] = {}

C2_Witness ==
    /\ last.op = "read"
    /\ Has(last.trace, "Get.404")
    /\ last.entry.id # << >>
    /\ last.entry.linked_service_name # {}
    /\ last.err = ""
    /\ d = EmptyResourceData

\* C3: Delete returns no error when the service answers not-found, so a
\* Delete of an entity that is already gone succeeds; any other failure of
\* the Delete call is returned.  After a Delete without error the entity is
\* absent and the state is dropped.
C3_DeleteIsIdempotent ==
    (last.op = "delete" /\ ~ParseDataSetID(last.entry.id).err) =>
        /\ Has(last.trace, "Delete.404") => last.err = ""
        /\ Has(last.trace, "Delete.500") => last.err = "deleting"
        /\ last.err = "" => (upstream[ReadKey] = {} /\ d = EmptyResourceData)
        /\ last.err # "" => d.id = last.entry.id

C3_Witness ==
    /\ last.op = "delete"
    /\ last.entry.id # << >>
    /\ Has(last.trace, "Delete.404")
    /\ last.err = ""
    /\ d = EmptyResourceData

\* C7: a Read that fetches an entity of another variant than the relational
\* table returns an error and writes none of the payload fields.
C7_OtherVariantIsAnError ==
    (last.op = "read" /\ Has(last.trace, "Get.200")
        /\ The(upstream[ReadKey]).kind # "RelationalTable") =>
        /\ last.err # ""
        /\ \A f \in PayloadFields : d[f] = last.entry[f]

C7_Witness ==
    /\ last.op = "read"
    /\ Has(last.trace, "Get.200")
    /\ The(upstream[ReadKey]).kind = "AzureBlob"
    /\ last.err = "classifying"
    /\ last.entry.description = {"d"}
    /\ d.description = {"d"}

\* The position of the first occurrence of an event in a trace, 0 if none
Pos(trace, ev) ==
    IF Has(trace, ev)
    THEN CHOOSE i \in 1..Len(trace) :
            trace[i] = ev /\ \A j \in 1..(i - 1) : trace[j] # ev
    ELSE 0

\* The dataset identifier Create/Update resolves from its ResourceData
Resolves(rd) ==
    LET r == ResolveDataFactoryId(rd, subscriptionId) IN ~r.err /\ r.id # {}
ResolvedId(rd) ==
    DataSetIdOf(subscriptionId, The(ResolveDataFactoryId(rd, subscriptionId).id),
                GetString(rd, "name"))

\* Create/Update failed before it had stored anything
FailedEarly ==
    \/ "parse" \in last.fails /\ ~Has(last.trace, "Read")
    \/ Has(last.trace, "probe.500")
    \/ Has(last.trace, "probe.200")
    \/ Has(last.trace, "CreateOrUpdate.err")

\* C8: in Create/Update the ID is set only after CreateOrUpdate succeeded and
\* Read is called only after the ID is set; when the identifier does not
\* resolve, the probe fails or finds an entity, or CreateOrUpdate fails, the
\* handler returns an error, leaves the ID as it was and does not call Read.
C8_IdAfterStoreReadAfterId ==
    IsCreateUpdate =>
        /\ Has(last.trace, "SetId") =>
            /\ Has(last.trace, "CreateOrUpdate.ok")
            /\ Pos(last.trace, "CreateOrUpdate.ok") < Pos(last.trace, "SetId")
        /\ Has(last.trace, "Read") =>
            /\ Has(last.trace, "SetId")
            /\ Pos(last.trace, "SetId") < Pos(last.trace, "Read")
        /\ Has(last.trace, "CreateOrUpdate.ok") =>
            (Has(last.trace, "SetId") /\ Has(last.trace, "Read"))
        /\ FailedEarly =>
            /\ last.err # ""
            /\ d.id = last.entry.id
            /\ ~Has(last.trace, "SetId")
            /\ ~Has(last.trace, "Read")

C8_Witness ==
    /\ last.op = "create"
    /\ Has(last.trace, "probe.404")
    /\ Has(last.trace, "CreateOrUpdate.err")
    /\ last.err = "creating/updating"
    /\ d.id = << >>

\* C10 as claimed: whenever Create/Update returns without error the resource
\* ID is non-empty and is the resolved dataset identifier, whatever the
\* trailing Read met.
C10_Claimed ==
    (IsCreateUpdate /\ last.err = "") =>
        /\ d.id # << >>
        /\ d.id = DataSetIdString(ResolvedId(last.entry))

\* C10 as amended: whenever Create/Update returns without error the resource
\* ID is the resolved dataset identifier, unless the Get of the trailing Read
\* answered not-found: then the ID is empty.
C10_IdAfterSuccess ==
    (IsCreateUpdate /\ last.err = "") =>
        /\ Resolves(last.entry)
        /\ Has(last.trace, "CreateOrUpdate.ok")
        /\ IF Has(last.trace, "Get.404")
           THEN d.id = << >>
           ELSE d.id = DataSetIdString(ResolvedId(last.entry))

C10_Witness ==
    /\ last.op = "create"
    /\ last.err = ""
    /\ Has(last.trace, "CreateOrUpdate.ok")
    /\ Has(last.trace, "Get.404")
    /\ d.id = << >>

\* Both identifier fields hold a value
BothSet(rd) ==
    GetString(rd, "data_factory_name") # "" /\ GetIdString(rd, "data_factory_id") # << >>

\* C5 as claimed: when data_factory_name and data_factory_id both hold a
\* value at the entry of Create/Update, the operation is rejected with an
\* error before any external call.
C5_Claimed ==
    (IsCreateUpdate /\ BothSet(last.entry)) =>
        (last.err # "" /\ last.trace = << >>)

\* C5 as amended: a configuration that supplies both fields is rejected by
\* the schema's ExactlyOneOf before the handler runs, with no external call;
\* when both merely hold a value at the entry of the handler (an Update after
\* Read filled in the computed one), the handler does not reject: it takes
\* the factory from data_factory_id and goes on to its external calls.
C5_BothRejectedOnlyInConfiguration ==
    /\ BothSet(cfg) => ~IsCreateUpdate
    /\ last.op = "validate" => (last.err # "" /\ last.trace = << >>)
    /\ (IsCreateUpdate /\ BothSet(last.entry)) =>
        LET p == ParseDataFactoryID(GetIdString(last.entry, "data_factory_id")) IN
        /\ ~p.err
        /\ last.trace # << >>
        /\ ResolvedId(last.entry).ResourceGroup = p.id.ResourceGroup
        /\ ResolvedId(last.entry).FactoryName = p.id.FactoryName

C5_Witness ==
    /\ last.op = "update"
    /\ BothSet(last.entry)
    /\ ~BothSet(cfg)
    /\ Has(last.trace, "CreateOrUpdate.ok")
    /\ last.err = ""

IsHandler == last.op \in {"create", "update", "read", "delete"}

\* The failures Read and Delete are to pass over: not-found from the Get of
\* Read and from Delete
Sanctioned == {"Get.404", "Delete.404"}

\* The steps of the last invocation that failed: the external calls that
\* did not answer 200 and the other failed steps
FailedSteps ==
    {ev \in {"probe.404", "probe.500", "Get.404", "Get.500",
             "CreateOrUpdate.err", "Delete.404", "Delete.500"} :
        Has(last.trace, ev)} \cup last.fails

PassedOver == Sanctioned \cup {"probe.404", "Set.additional_properties"}

C4_Claimed ==
    (IsCreateUpdate /\ last.err = "" /\ Has(last.trace, "CreateOrUpdate.ok")
        /\ Has(last.trace, "Get.200")) =>
        \A f \in PayloadFields : d[f] = last.entry[f]

\* The zero value of a field
ZeroOf(f) == IF f \in StringFields THEN ""
             ELSE IF f \in MapFields THEN {} ELSE << >>

\* What does hold of that round trip: a field supplied with a value reads
\* back with that value, and an unsupplied folder stays unset; every other
\* unsupplied optional field reads back set to its empty value.
RoundTripOfSuppliedFields ==
    (IsCreateUpdate /\ last.err = "" /\ Has(last.trace, "CreateOrUpdate.ok")
        /\ Has(last.trace, "Get.200")) =>
        \A f \in PayloadFields :
            /\ last.entry[f] # {} => d[f] = last.entry[f]
            /\ (last.entry[f] = {} /\ f = "folder") => d[f] = {}
            /\ (last.entry[f] = {} /\ f # "folder") =>
                d[f] = {ZeroOf(f)}

\* C9 as claimed: with data_factory_id supplied, the persisted dataset
\* identifier lies in the subscription, resource group and factory of
\* data_factory_id, and Read writes back the data_factory_id supplied.
C9_Claimed ==
    LET p == ParseDataFactoryID(GetIdString(cfg, "data_factory_id"))
        q == ParseDataSetID(d.id)
    IN  (IsCreateUpdate /\ cfg.data_factory_id # {} /\ ~p.err
            /\ Has(last.trace, "SetId") /\ d.id # << >>) =>
            /\ ~q.err
            /\ q.id.SubscriptionId = p.id.SubscriptionId
            /\ q.id.ResourceGroup = p.id.ResourceGroup
            /\ q.id.FactoryName = p.id.FactoryName
            /\ Has(last.trace, "Get.200") => d.data_factory_id = cfg.data_factory_id

====
